---- MODULE Spec2Model ----
(***************************************************************************)
(* A model of the PDF generator API (src/app.py): the request handlers of  *)
(* the Flask application, the output directory they share, and the clock.  *)
(*                                                                         *)
(* Time is counted in ticks, Resolution ticks to the second, so that       *)
(* int(time.time()) is a real truncation.  A file name is a sequence of    *)
(* tokens ("document-", the decimal seconds, ".", "pdf"), so that the      *)
(* download handler's substring tests are computed on the name.            *)
(*                                                                         *)
(* The development server handles requests in threads: a generate request  *)
(* is three steps (up to the clock read, the conversion's writes, the      *)
(* stat and the response) and a download two (the checks, send_file).      *)
(* Environment assumption: no request is in flight for seven days (the     *)
(* clock jumps by a week only between requests).                           *)
(***************************************************************************)
EXTENDS Integers, Sequences, FiniteSets, TLC

VARIABLES
    API_KEY,   \* the module-level API key, "demo" when none is configured
    clock,     \* time.time(), in ticks
    fs,        \* UPLOAD_DIR: file name -> [mtime, owner, kind, data]
    gen,       \* the generate requests in flight, one per slot
    dl,        \* the download request in flight
    last,      \* the response just returned by a handler that runs in one step
    requests   \* how many generate requests have been received

vars == <<API_KEY, clock, fs, gen, dl, last, requests>>

(***************************************************************************)
(* Bounds of the model.                                                    *)
(***************************************************************************)
Resolution == 2    \* clock ticks per second
MaxSubTicks == 2   \* ticks the clock advances one by one within a week
MaxWeeks == 1      \* jumps of seven days
MaxRequests == 2   \* generate requests received

Slots == {1, 2}

(***************************************************************************)
(* Program constants.                                                      *)
(***************************************************************************)
MinTitleLen == 3
DefaultPageCount == 18
MinPageCount == 5
MaxPageCount == 50
MaxAgeSeconds == 604800

(***************************************************************************)
(* JSON values as Python sees them.                                        *)
(***************************************************************************)
Absent == [t |-> "absent"]
JNull == [t |-> "null"]
JBool(b) == [t |-> "bool", b |-> b]
JNum(n) == [t |-> "num", n |-> n]
JStr(s) == [t |-> "str", s |-> s]
JList(l) == [t |-> "list", l |-> l]

\* bool(v)
Truthy(v) ==
    CASE v.t = "null" -> FALSE
      [] v.t = "bool" -> v.b
      [] v.t = "num" -> v.n # 0
      [] v.t = "str" -> Len(v.s) > 0
      [] v.t = "list" -> Len(v.l) > 0

\* len(v) is defined
HasLen(v) == v.t \in {"str", "list"}

PyLen(v) == IF v.t = "str" THEN Len(v.s) ELSE Len(v.l)

\* v < n and v > n are defined (a bool is an int)
IsNumber(v) == v.t \in {"num", "bool"}

NumVal(v) == IF v.t = "num" THEN v.n ELSE IF v.b THEN 1 ELSE 0

\* "for p in v" is defined
Iterable(v) == v.t \in {"str", "list"}

\* the elements "for p in v" yields; the points of the bodies below are lists
Items(v) == v.l

\* v can be a dict key
Hashable(v) == v.t # "list"

\* data.get(key, default)
Get(data, key, default) == IF data[key] = Absent THEN default ELSE data[key]

(***************************************************************************)
(* Request bodies: what request.get_json() makes of them.                  *)
(***************************************************************************)
Object(title, pageCount, useAI, points, template, coverStyle) ==
    [kind |-> "object", title |-> title, pageCount |-> pageCount,
     useAI |-> useAI, points |-> points, template |-> template,
     coverStyle |-> coverStyle]

NoBody == [kind |-> "none"]

Titles ==
    {Absent, JNull, JStr(""), JStr("ab"), JStr("abc"), JStr("abcd"), JNum(7)}

PageCounts ==
    {Absent, JNull, JNum(4), JNum(5), JNum(18), JNum(50), JNum(51)}

UseAIs == {Absent, JBool(TRUE)}

PointsValues == {Absent, JList(<<"p1">>), JNum(5)}

Templates == {Absent, JList(<<>>)}

CoverStyles == {Absent, JList(<<>>)}

\* the bodies a client sends: no JSON, JSON that is no object, every title
\* with every page count, and a valid title with every other field
Bodies ==
    {[kind |-> k] : k \in {"nojson", "null", "number", "array"}}
    \cup {Object(ti, pc, Absent, Absent, Absent, Absent) :
            ti \in Titles, pc \in PageCounts}
    \cup {Object(JStr("abc"), pc, ai, po, te, co) :
            pc \in {Absent, JNum(5), JNum(50)}, ai \in UseAIs,
            po \in PointsValues, te \in Templates, co \in CoverStyles}

\* the bodies of the concurrent specification
SomeBodies ==
    {Object(JStr("abc"), Absent, ai, JList(<<"p1">>), Absent, Absent) :
        ai \in UseAIs}
    \cup {Object(Absent, Absent, Absent, Absent, Absent, Absent),
          Object(JStr("abc"), Absent, Absent, JNum(5), Absent, Absent)}

(***************************************************************************)
(* Responses.                                                              *)
(***************************************************************************)
RespError(status, message) ==
    [status |-> status, success |-> FALSE, error |-> message,
     filename |-> <<>>, downloadUrl |-> <<>>, size |-> 0]

RespGenerated(filename, size) ==
    [status |-> 200, success |-> TRUE, error |-> "",
     filename |-> filename, downloadUrl |-> <<"/download/">> \o filename,
     size |-> size]

NoResp == RespError(0, "")

\* the response of health, get_stats or cleanup_old_files
Last(op, status, n, size) == [op |-> op, status |-> status, n |-> n, size |-> size]

NoLast == Last("none", 0, 0, 0)

(***************************************************************************)
(* validate_request.  exc names the exception it raises, "" when none.     *)
(***************************************************************************)
Validation(exc, valid, message) ==
    [exc |-> exc, valid |-> valid, message |-> message]

MutValidateStrictBounds(data) ==
    IF data.kind \in {"null", "number"} THEN Validation("TypeError", FALSE, "")
    ELSE IF data.kind = "array" \/ data.title = Absent \/ ~Truthy(data.title)
    THEN Validation("", FALSE, "Missing required field: title")
    ELSE IF ~HasLen(data.title) THEN Validation("TypeError", FALSE, "")
    ELSE IF PyLen(data.title) < MinTitleLen
    THEN Validation("", FALSE, "Title must be at least 3 characters")
    ELSE LET page_count == Get(data, "pageCount", JNum(DefaultPageCount))
         IN  IF ~IsNumber(page_count) THEN Validation("TypeError", FALSE, "")
             ELSE IF NumVal(page_count) <= MinPageCount
                     \/ NumVal(page_count) >= MaxPageCount
             THEN Validation("", FALSE, "Page count must be between 5 and 50")
             ELSE Validation("", TRUE, "Valid")

MutValidateLongTitle(data) ==
    IF data.kind \in {"null", "number"} THEN Validation("TypeError", FALSE, "")
    ELSE IF data.kind = "array" \/ data.title = Absent \/ ~Truthy(data.title)
    THEN Validation("", FALSE, "Missing required field: title")
    ELSE IF ~HasLen(data.title) THEN Validation("TypeError", FALSE, "")
    ELSE IF PyLen(data.title) <= MinTitleLen
    THEN Validation("", FALSE, "Title must be at least 3 characters")
    ELSE LET page_count == Get(data, "pageCount", JNum(DefaultPageCount))
         IN  IF ~IsNumber(page_count) THEN Validation("TypeError", FALSE, "")
             ELSE IF NumVal(page_count) < MinPageCount
                     \/ NumVal(page_count) > MaxPageCount
             THEN Validation("", FALSE, "Page count must be between 5 and 50")
             ELSE Validation("", TRUE, "Valid")

\* data is what get_json returned: None ("null"), a number, an empty array
\* or an object.  "field not in data" raises TypeError on None and numbers.
validate_request(data) ==
    IF data.kind \in {"null", "number"} THEN Validation("TypeError", FALSE, "")
    ELSE IF data.kind = "array" \/ data.title = Absent \/ ~Truthy(data.title)
    THEN Validation("", FALSE, "Missing required field: title")
    ELSE IF ~HasLen(data.title) THEN Validation("TypeError", FALSE, "")
    ELSE IF PyLen(data.title) < MinTitleLen
    THEN Validation("", FALSE, "Title must be at least 3 characters")
    ELSE LET page_count == Get(data, "pageCount", JNum(DefaultPageCount))
         IN  IF ~IsNumber(page_count) THEN Validation("TypeError", FALSE, "")
             ELSE IF NumVal(page_count) < MinPageCount
                     \/ NumVal(page_count) > MaxPageCount
             THEN Validation("", FALSE, "Page count must be between 5 and 50")
             ELSE Validation("", TRUE, "Valid")

(***************************************************************************)
(* Content.  apiResult is the outcome of the completions call, were it     *)
(* made: "ok" or "fail".  calls counts the calls made.                     *)
(***************************************************************************)
NoContent == [src |-> "none", points |-> <<>>]

ContentResult(exc, content, calls) ==
    [exc |-> exc, content |-> content, calls |-> calls]

MutAiNoFallback(title, template, points, apiResult) ==
    IF ~Iterable(points) \/ (API_KEY # "demo" /\ ~Hashable(template))
    THEN ContentResult("TypeError", NoContent, 0)
    ELSE IF API_KEY = "demo"
    THEN ContentResult("", [src |-> "demo", points |-> Items(points)], 0)
    ELSE IF apiResult = "ok"
    THEN ContentResult("", [src |-> "ai", points |-> <<>>], 1)
    ELSE ContentResult("APIError", NoContent, 1)

generate_content_with_ai(title, template, points, apiResult) ==
    IF API_KEY = "demo"
    THEN IF Iterable(points)
         THEN ContentResult("", [src |-> "demo", points |-> Items(points)], 0)
         ELSE ContentResult("TypeError", NoContent, 0)
    ELSE IF ~Hashable(template) \/ ~Iterable(points)
    THEN ContentResult("TypeError", NoContent, 0)
    ELSE IF apiResult = "ok"
    THEN ContentResult("", [src |-> "ai", points |-> <<>>], 1)
    ELSE ContentResult("", [src |-> "fallback", points |-> Items(points)], 1)

\* the handler's own content, useAI being false
template_content(points) ==
    IF Iterable(points)
    THEN ContentResult("", [src |-> "template", points |-> Items(points)], 0)
    ELSE ContentResult("TypeError", NoContent, 0)

\* gradient_maps.get(cover_style, ...) raises on an unhashable cover style;
\* the document is kept as its three parts, whatever the content
generate_html_document(content, cover_style) ==
    IF Hashable(cover_style)
    THEN [exc |-> "", html |-> <<"cover", "content", "footer">>]
    ELSE [exc |-> "TypeError", html |-> <<>>]

(***************************************************************************)
(* File names.                                                             *)
(***************************************************************************)
MutStampTicks(now) == now

\* int(time.time())
DocStamp(now) == now \div Resolution

DocFilename(now) == <<"document-", ToString(DocStamp(now)), ".", "pdf">>

RECURSIVE ReplacePdf(_)
\* str(output_path).replace('.pdf', '.html')
ReplacePdf(path) ==
    IF Len(path) < 2 THEN path
    ELSE IF path[1] = "." /\ path[2] = "pdf"
    THEN <<".", "html">> \o ReplacePdf(SubSeq(path, 3, Len(path)))
    ELSE <<path[1]>> \o ReplacePdf(Tail(path))

(***************************************************************************)
(* The output directory.                                                   *)
(***************************************************************************)
Range(seq) == {seq[k] : k \in 1..Len(seq)}

Put(files, name, file) ==
    [x \in DOMAIN files \cup {name} |-> IF x = name THEN file ELSE files[x]]

File(now, owner, kind, data) ==
    [mtime |-> now, owner |-> owner, kind |-> kind, data |-> data]

NoFile == File(-1, 0, "none", <<>>)

\* LOG_DIR / 'api.log', as a path relative to UPLOAD_DIR, written with the
\* separator of either platform: a file outside the output directory
LogPaths ==
    {<<".", ".", sep, "logs", sep, "api", ".", "log">> : sep \in {"/", "\\"}}

LogFile == File(0, 0, "log", <<"log">>)

\* filepath.exists(): UPLOAD_DIR / "." is the directory itself
PathExists(files, name) ==
    name \in DOMAIN files \/ name \in LogPaths \/ name = <<".">>

\* the path names a regular file, which send_file can open
IsFile(files, name) == name \in DOMAIN files \/ name \in LogPaths

FileAt(files, name) == IF name \in DOMAIN files THEN files[name] ELSE LogFile

\* st_size, counted in tokens
StSize(file) == Len(file.data)

(***************************************************************************)
(* A generate request.  pc: "idle", "convert" (the name is chosen, the     *)
(* conversion is next), "stat" (the conversion returned), "done".          *)
(***************************************************************************)
IdleSlot ==
    [pc |-> "idle", body |-> NoBody, content |-> NoContent, html |-> <<>>,
     filename |-> <<>>, readAt |-> -1, calls |-> 0, success |-> FALSE,
     resp |-> NoResp]

Answer(slot, resp) == [slot EXCEPT !.pc = "done", !.resp = resp]

\* api_generate_pdf down to generate_pdf's clock read, at time now
Accept(data, apiResult, now) ==
    LET slot == [IdleSlot EXCEPT !.body = data]
    IN  IF data.kind = "nojson" THEN Answer(slot, RespError(500, "get_json"))
        ELSE
        LET v == validate_request(data)
        IN  IF v.exc # "" THEN Answer(slot, RespError(500, v.exc))
            ELSE IF ~v.valid THEN Answer(slot, RespError(400, v.message))
            ELSE
            LET template == Get(data, "template", JStr("tech-report"))
                points == Get(data, "points", JList(<<>>))
                use_ai == Get(data, "useAI", JBool(FALSE))
                cover_style == Get(data, "coverStyle", JStr("gradient-blue"))
                c == IF Truthy(use_ai)
                     THEN generate_content_with_ai(data.title, template,
                                                   points, apiResult)
                     ELSE template_content(points)
                called == [slot EXCEPT !.calls = c.calls]
                h == generate_html_document(c.content, cover_style)
            IN  IF c.exc # "" THEN Answer(called, RespError(500, c.exc))
                ELSE IF h.exc # "" THEN Answer(called, RespError(500, h.exc))
                ELSE [called EXCEPT !.pc = "convert", !.content = c.content,
                                    !.html = h.html, !.readAt = now,
                                    !.filename = DocFilename(now)]

api_generate_pdf(i, data, apiResult) ==
    /\ gen[i].pc = "idle"
    /\ requests < MaxRequests
    /\ requests' = requests + 1
    /\ gen' = [gen EXCEPT ![i] = Accept(data, apiResult, clock)]
    /\ UNCHANGED <<API_KEY, clock, fs, dl, last>>

ConvertOutcomes == {"pdfkit", "fallback", "html_only", "nothing"}

MutWritesStray(files, owner, path, html, outcome, now) ==
    Put(files, <<"tmp">>, File(now, owner, "html", html))

\* the files after convert_html_to_pdf_simple(html, path): pdfkit wrote the
\* PDF; or the fallback wrote the HTML and the marker; or the fallback
\* raised after the HTML ("html_only") or before it ("nothing")
ConvertWrites(files, owner, path, html, outcome, now) ==
    LET html_path == ReplacePdf(path)
        marker == <<"PDF_EXPORT">> \o path \o <<"HTML_SOURCE">> \o html_path
        withHtml == Put(files, html_path, File(now, owner, "html", html))
    IN  CASE outcome = "pdfkit" -> Put(files, path, File(now, owner, "pdf", html))
          [] outcome = "fallback" ->
                Put(withHtml, path, File(now, owner, "marker", marker))
          [] outcome = "html_only" -> withHtml
          [] outcome = "nothing" -> files

convert_html_to_pdf_simple(i, outcome) ==
    /\ gen[i].pc = "convert"
    /\ fs' = ConvertWrites(fs, i, gen[i].filename, gen[i].html, outcome, clock)
    /\ gen' = [gen EXCEPT ![i].pc = "stat",
                          ![i].success = (outcome \in {"pdfkit", "fallback"})]
    /\ UNCHANGED <<API_KEY, clock, dl, last, requests>>

MutNoneOnFailure(files, filename, success) ==
    [none |-> ~success, filename |-> filename,
     size |-> IF filename \in DOMAIN files THEN StSize(files[filename]) ELSE 0]

\* what generate_pdf returns once the conversion has returned success
generate_pdf(files, filename, success) ==
    [none |-> FALSE, filename |-> filename,
     size |-> IF filename \in DOMAIN files THEN StSize(files[filename]) ELSE 0]

\* generate_pdf's stat and the handler's response
generate_pdf_stat(i) ==
    /\ gen[i].pc = "stat"
    /\ LET pdf_info == generate_pdf(fs, gen[i].filename, gen[i].success)
       IN  gen' = [gen EXCEPT ![i] =
                Answer(@, IF pdf_info.none
                          THEN RespError(500, "PDF generation failed")
                          ELSE RespGenerated(pdf_info.filename, pdf_info.size))]
    /\ UNCHANGED <<API_KEY, clock, fs, dl, last, requests>>

InFlight(i) == gen[i].pc \in {"convert", "stat"}

(***************************************************************************)
(* A download request.  pc: "idle", "send" (the checks passed, send_file   *)
(* is next), "done".  accessed: the handler has looked at the file system; *)
(* served: the kind of the file sent.                                      *)
(***************************************************************************)
DlResp(status, message, served) ==
    [status |-> status, error |-> message, served |-> served]

IdleDownload ==
    [pc |-> "idle", name |-> <<>>, accessed |-> FALSE,
     resp |-> DlResp(0, "", "")]

\* the route '/download/<filename>' matches one non-empty path segment
Routed(name) == name # <<>> /\ "/" \notin Range(name)

HasDotDot(name) ==
    \E k \in 1..(Len(name) - 1) : name[k] = "." /\ name[k + 1] = "."

MutInvalidNoBackslash(name) == HasDotDot(name) /\ "/" \in Range(name)

\* '..' in filename or '/' in filename or '\\' in filename
InvalidFilename(name) ==
    HasDotDot(name) \/ "/" \in Range(name) \/ "\\" \in Range(name)

MutCheckedServeAnyway(files, name) ==
    IF ~Routed(name)
    THEN [pc |-> "done", name |-> name, accessed |-> FALSE,
          resp |-> DlResp(404, "Endpoint not found", "")]
    ELSE IF InvalidFilename(name)
    THEN [pc |-> "done", name |-> name, accessed |-> FALSE,
          resp |-> DlResp(400, "Invalid filename", "")]
    ELSE [pc |-> "send", name |-> name, accessed |-> TRUE,
          resp |-> DlResp(0, "", "")]

\* the request as download_pdf leaves it before send_file
DownloadChecked(files, name) ==
    IF ~Routed(name)
    THEN [pc |-> "done", name |-> name, accessed |-> FALSE,
          resp |-> DlResp(404, "Endpoint not found", "")]
    ELSE IF InvalidFilename(name)
    THEN [pc |-> "done", name |-> name, accessed |-> FALSE,
          resp |-> DlResp(400, "Invalid filename", "")]
    ELSE IF ~PathExists(files, name)
    THEN [pc |-> "done", name |-> name, accessed |-> TRUE,
          resp |-> DlResp(404, "File not found", "")]
    ELSE [pc |-> "send", name |-> name, accessed |-> TRUE,
          resp |-> DlResp(0, "", "")]

\* the instants the clock takes
ClockValues ==
    {w * (MaxAgeSeconds * Resolution) + k : w \in 0..MaxWeeks, k \in 0..MaxSubTicks}

\* the names a client asks for: those a generate response can carry, their
\* HTML siblings, the log file by a relative path, and others
DownloadNames ==
    {DocFilename(now) : now \in ClockValues}
    \cup {ReplacePdf(DocFilename(now)) : now \in ClockValues}
    \cup LogPaths
    \cup {<<"x">>, <<".">>, <<"x", ".", ".", "x">>, <<"x", "\\", "x">>,
          <<"x", "/", "x">>}

download_pdf(name) ==
    /\ dl.pc = "idle"
    /\ dl' = DownloadChecked(fs, name)
    /\ UNCHANGED <<API_KEY, clock, fs, gen, last, requests>>

\* send_file raises when the path is no longer, or is not, a regular file
send_file ==
    /\ dl.pc = "send"
    /\ dl' = [dl EXCEPT !.pc = "done",
                        !.resp = IF IsFile(fs, dl.name)
                                 THEN DlResp(200, "", FileAt(fs, dl.name).kind)
                                 ELSE DlResp(500, "send_file", "")]
    /\ UNCHANGED <<API_KEY, clock, fs, gen, last, requests>>

(***************************************************************************)
(* The handlers that run in one step.                                      *)
(***************************************************************************)

health ==
    /\ last' = Last("health", 200, 0, 0)
    /\ UNCHANGED <<API_KEY, clock, fs, gen, dl, requests>>

\* UPLOAD_DIR.glob('*.pdf')
IsPdfName(name) ==
    Len(name) >= 2 /\ name[Len(name) - 1] = "." /\ name[Len(name)] = "pdf"

RECURSIVE TotalSize(_, _)
TotalSize(files, names) ==
    IF names = {} THEN 0
    ELSE LET n == CHOOSE x \in names : TRUE
         IN  StSize(files[n]) + TotalSize(files, names \ {n})

get_stats ==
    /\ LET pdf_files == {n \in DOMAIN fs : IsPdfName(n)}
       IN  last' = Last("stats", 200, Cardinality(pdf_files),
                        TotalSize(fs, pdf_files))
    /\ UNCHANGED <<API_KEY, clock, fs, gen, dl, requests>>

\* time.time() - (7 * 24 * 60 * 60), in ticks
CutoffTime(now) == now - MaxAgeSeconds * Resolution

MutIsOldInclusive(file, cutoff_time) == file.mtime <= cutoff_time

\* file_path.stat().st_mtime < cutoff_time
IsOld(file, cutoff_time) == file.mtime < cutoff_time

cleanup_old_files ==
    /\ LET old == {n \in DOMAIN fs : IsOld(fs[n], CutoffTime(clock))}
       IN  /\ fs' = [n \in DOMAIN fs \ old |-> fs[n]]
           /\ last' = Last("cleanup", 200, Cardinality(old), 0)
    /\ UNCHANGED <<API_KEY, clock, gen, dl, requests>>

(***************************************************************************)
(* The clock.                                                              *)
(***************************************************************************)
WeekTicks == MaxAgeSeconds * Resolution

Tick ==
    /\ clock % WeekTicks < MaxSubTicks
    /\ clock' = clock + 1
    /\ UNCHANGED <<API_KEY, fs, gen, dl, last, requests>>

\* seven days pass while no request is in flight
TickWeek ==
    /\ clock \div WeekTicks < MaxWeeks
    /\ \A i \in Slots : ~InFlight(i)
    /\ dl.pc # "send"
    /\ clock' = clock + WeekTicks
    /\ UNCHANGED <<API_KEY, fs, gen, dl, last, requests>>

(***************************************************************************)
(* A response leaves the server: the handler's record of it is dropped.    *)
(***************************************************************************)
respond_generate(i) ==
    /\ gen[i].pc = "done"
    /\ gen' = [gen EXCEPT ![i] = IdleSlot]
    /\ UNCHANGED <<API_KEY, clock, fs, dl, last, requests>>

respond_download ==
    /\ dl.pc = "done"
    /\ dl' = IdleDownload
    /\ UNCHANGED <<API_KEY, clock, fs, gen, last, requests>>

respond_last ==
    /\ last # NoLast
    /\ last' = NoLast
    /\ UNCHANGED <<API_KEY, clock, fs, gen, dl, requests>>

\* no response is waiting to leave
Quiet ==
    /\ \A i \in Slots : gen[i].pc # "done"
    /\ dl.pc # "done"
    /\ last = NoLast

(***************************************************************************)
(* The specifications.                                                     *)
(***************************************************************************)
EmptyDir == [n \in {} |-> NoFile]

Init ==
    /\ API_KEY \in {"demo", "key"}
    /\ clock = 0
    /\ fs = EmptyDir
    /\ gen = [i \in Slots |-> IdleSlot]
    /\ dl = IdleDownload
    /\ last = NoLast
    /\ requests = 0

ApiResults == {"ok", "fail"}

\* The output directory under generate, download, cleanup, statistics and
\* health requests.  A finished response leaves before another step is taken.
Next ==
    \/ respond_generate(1)
    \/ respond_download
    \/ respond_last
    \/ Quiet /\ \E data \in SomeBodies, r \in ApiResults :
                    api_generate_pdf(1, data, r)
    \/ Quiet /\ \E outcome \in ConvertOutcomes :
                    convert_html_to_pdf_simple(1, outcome)
    \/ Quiet /\ generate_pdf_stat(1)
    \/ Quiet /\ \E name \in DownloadNames : download_pdf(name)
    \/ Quiet /\ send_file
    \/ Quiet /\ health
    \/ Quiet /\ get_stats
    \/ Quiet /\ cleanup_old_files
    \/ Quiet /\ Tick
    \/ Quiet /\ TickWeek

Spec == Init /\ [][Next]_vars

\* Generate requests racing each other.
NextRace ==
    \/ \E i \in Slots, data \in SomeBodies, r \in ApiResults :
            api_generate_pdf(i, data, r)
    \/ \E i \in Slots, outcome \in ConvertOutcomes :
            convert_html_to_pdf_simple(i, outcome)
    \/ \E i \in Slots : generate_pdf_stat(i)
    \/ \E i \in Slots : respond_generate(i)
    \/ Tick

SpecRace == Init /\ [][NextRace]_vars

\* One generate request, over every body.
NextApi ==
    \/ \E data \in Bodies, r \in ApiResults : api_generate_pdf(1, data, r)
    \/ \E outcome \in ConvertOutcomes : convert_html_to_pdf_simple(1, outcome)
    \/ generate_pdf_stat(1)
    \/ Tick

SpecApi == Init /\ [][NextApi]_vars

(***************************************************************************)
(* Properties of the generate endpoint (SpecApi).                          *)
(***************************************************************************)
Answered(i) == gen[i].pc = "done"

\* the body is an object whose title is a string of at least 3 characters
TitleOk(data) ==
    /\ data.kind = "object"
    /\ data.title.t = "str"
    /\ Len(data.title.s) >= 3

\* pageCount is absent or an integer in 5..50
PageCountOk(data) ==
    \/ data.pageCount = Absent
    \/ data.pageCount.t = "num" /\ data.pageCount.n \in 5..50

\* the other fields have the types the handler uses them with: points can
\* be iterated, coverStyle can be a dict key, and so can template when the
\* completions API is used
FieldsWellTyped(data) ==
    /\ data.points = Absent \/ data.points.t \in {"list", "str"}
    /\ data.coverStyle.t # "list"
    /\ (Truthy(Get(data, "useAI", JBool(FALSE))) /\ API_KEY # "demo")
            => data.template.t # "list"

GeneratedOk(i) ==
    /\ gen[i].resp.status = 200
    /\ gen[i].resp.success
    /\ gen[i].readAt >= 0
    /\ gen[i].resp.filename =
            <<"document-", ToString(gen[i].readAt \div Resolution), ".", "pdf">>
    /\ gen[i].resp.downloadUrl = <<"/download/">> \o gen[i].resp.filename

\* C1 as stated: every request with a title of at least 3 characters and a
\* pageCount absent or in 5..50 is answered 200 with success, the filename
\* document-<epoch seconds>.pdf and the downloadUrl "/download/" + filename,
\* whatever its other fields are.
C1_AnyFields ==
    \A i \in Slots :
        (Answered(i) /\ TitleOk(gen[i].body) /\ PageCountOk(gen[i].body))
            => GeneratedOk(i)

\* C1 amended: such a request is answered 200 with success, the filename
\* document-<epoch seconds>.pdf and the downloadUrl "/download/" + filename
\* provided its points are absent or iterable, its coverStyle is hashable
\* and, when the completions API is used, so is its template.
C1_WellTypedFields ==
    \A i \in Slots :
        (/\ Answered(i)
         /\ TitleOk(gen[i].body)
         /\ PageCountOk(gen[i].body)
         /\ FieldsWellTyped(gen[i].body))
            => GeneratedOk(i)

C1_Witness ==
    /\ Answered(1)
    /\ gen[1].body.kind = "object"
    /\ gen[1].body.title = JStr("abc")
    /\ gen[1].body.pageCount = JNum(50)
    /\ gen[1].body.useAI = JBool(TRUE)
    /\ gen[1].body.points = JList(<<"p1">>)
    /\ gen[1].readAt = MaxSubTicks
    /\ gen[1].resp.status = 200

\* the title is absent from the body, or present but empty
TitleMissing(data) ==
    \/ data.kind # "object"
    \/ data.title = Absent
    \/ data.title = JStr("")

\* C2: every request whose title is missing, an empty object and a body
\* that is no JSON object included, is answered 400 with the message
\* "Missing required field: title".
C2_MissingTitle400 ==
    \A i \in Slots :
        (Answered(i) /\ TitleMissing(gen[i].body))
            => /\ gen[i].resp.status = 400
               /\ gen[i].resp.error = "Missing required field: title"

PageCountRejected(i) ==
    /\ gen[i].resp.status = 400
    /\ gen[i].resp.error = "Page count must be between 5 and 50"

\* C3: with a title of at least 3 characters, the answer is 400 "Page count
\* must be between 5 and 50" exactly when pageCount is below 5 or above 50;
\* 5, 50 and an absent pageCount are accepted.
C3_PageCountBounds ==
    \A i \in Slots :
        (Answered(i) /\ TitleOk(gen[i].body))
            => LET pc == gen[i].body.pageCount
               IN  /\ PageCountRejected(i)
                        <=> (pc.t = "num" /\ (pc.n < 5 \/ pc.n > 50))
                   /\ pc \in {Absent, JNum(5), JNum(50)}
                        => gen[i].resp.status # 400

C3_Witness ==
    /\ Answered(1)
    /\ TitleOk(gen[1].body)
    /\ gen[1].body.pageCount = JNum(5)
    /\ gen[1].resp.status = 200

\* the request asks for generated content
UsesAI(data) == Truthy(Get(data, "useAI", JBool(FALSE)))

DownloadAnswered == dl.pc = "done"

\* C4 as stated: a download of a name that names no existing file of the
\* output directory is answered 404.
C4_NoFile404 ==
    (DownloadAnswered /\ dl.name \notin DOMAIN fs) => dl.resp.status = 404

\* C4 amended: a download of a name that contains neither ".." nor "\" is
\* answered 404 whenever nothing exists at that path of the output
\* directory when the handler looks, at any point of any run of generate,
\* cleanup and download requests.
C4_NoPath404 ==
    [][(/\ dl.pc = "idle"
        /\ dl'.pc # "idle"
        /\ ~HasDotDot(dl'.name)
        /\ "\\" \notin Range(dl'.name)
        /\ dl'.name \notin DOMAIN fs
        /\ dl'.name # <<".">>)
            => (dl'.pc = "done" /\ dl'.resp.status = 404)]_vars

\* a generate request was received, seven days passed, the directory is
\* empty again, and the name the response carried is answered 404
C4_Witness ==
    /\ DownloadAnswered
    /\ dl.name = <<"document-", "0", ".", "pdf">>
    /\ dl.resp = DlResp(404, "File not found", "")
    /\ requests >= 1
    /\ clock > MaxAgeSeconds * Resolution
    /\ fs = EmptyDir

\* C5: cleanup removes only files older than seven days: a file modified at
\* or after the time of the call minus seven days is still there, unchanged,
\* when cleanup returns, every file deleted was modified before that, and
\* the count of the response is the number of files deleted.
C5_CleanupOnlyOld ==
    [][(last = NoLast /\ last'.op = "cleanup")
            => LET cutoff == clock - 604800 * Resolution
                   gone == DOMAIN fs \ DOMAIN fs'
               IN  /\ DOMAIN fs' \subseteq DOMAIN fs
                   /\ \A n \in DOMAIN fs :
                        fs[n].mtime >= cutoff => (n \in DOMAIN fs' /\ fs'[n] = fs[n])
                   /\ \A n \in gone : fs[n].mtime < cutoff
                   /\ last'.status = 200
                   /\ last'.n = Cardinality(gone)]_vars

\* cleanup has deleted a file and left one modified exactly at the cutoff
C5_Witness ==
    /\ last.op = "cleanup"
    /\ last.n >= 1
    /\ \E n \in DOMAIN fs : fs[n].mtime = clock - 604800 * Resolution

HasSeparator(name) == "/" \in Range(name) \/ "\\" \in Range(name)

\* C6 as stated: every filename containing "..", "/" or "\" is answered 400
\* "Invalid filename".
C6_Traversal400 ==
    (DownloadAnswered /\ (HasDotDot(dl.name) \/ HasSeparator(dl.name)))
        => (dl.resp.status = 400 /\ dl.resp.error = "Invalid filename")

\* C6 amended: a filename containing "/" does not reach the handler and is
\* answered 404 "Endpoint not found"; every other filename containing ".."
\* or "\" is answered 400 "Invalid filename"; both before any access to the
\* file system, so that a file is served only when it is a direct child of
\* the output directory.
C6_Confined ==
    /\ (dl.pc # "idle" /\ (HasDotDot(dl.name) \/ HasSeparator(dl.name)))
            => /\ DownloadAnswered
               /\ ~dl.accessed
               /\ dl.resp = IF "/" \in Range(dl.name)
                            THEN DlResp(404, "Endpoint not found", "")
                            ELSE DlResp(400, "Invalid filename", "")
    /\ (DownloadAnswered /\ dl.resp.status = 200)
            => /\ ~HasDotDot(dl.name)
               /\ ~HasSeparator(dl.name)
               /\ dl.resp.served \in {"pdf", "marker", "html"}

\* the log file, asked for by a relative path, is refused unread
C6_Witness ==
    /\ DownloadAnswered
    /\ dl.name = <<".", ".", "\\", "logs", "\\", "api", ".", "log">>
    /\ dl.resp = DlResp(400, "Invalid filename", "")
    /\ ~dl.accessed

\* the files a generate request writes
OwnNames(i) == {gen[i].filename, ReplacePdf(gen[i].filename)}

C10_SuccessWithoutFile ==
    \A i \in Slots :
        (Answered(i) /\ gen[i].filename # <<>>)
            => /\ gen[i].resp.status = 200
               /\ gen[i].resp.success
               /\ gen[i].resp.size > 0 <=> gen[i].filename \in DOMAIN fs
               /\ (~gen[i].success /\ gen[i].filename \notin DOMAIN fs)
                    => /\ gen[i].resp.size = 0
                       /\ gen[i].resp.downloadUrl = <<"/download/">> \o gen[i].filename
                       /\ DownloadChecked(fs, gen[i].filename).pc = "done"
                       /\ DownloadChecked(fs, gen[i].filename).resp.status = 404

C10_Witness ==
    /\ Answered(1)
    /\ ~gen[1].success
    /\ gen[1].filename # <<>>
    /\ gen[1].filename \notin DOMAIN fs
    /\ ReplacePdf(gen[1].filename) \in DOMAIN fs
    /\ gen[1].resp.status = 200
    /\ gen[1].resp.size = 0

(***************************************************************************)
(* Properties of racing generate requests (SpecRace).                      *)
(***************************************************************************)
SameSecond(i, j) ==
    /\ gen[i].readAt >= 0
    /\ gen[j].readAt >= 0
    /\ gen[i].readAt \div Resolution = gen[j].readAt \div Resolution

\* C8: two accepted generate requests that read the clock within the same
\* second have the same filename, both are answered 200 with the same
\* downloadUrl, and the one file under that name is the document of at most
\* one of them.
C8_SameSecondSameName ==
    \A i \in Slots : \A j \in Slots \ {i} :
        SameSecond(i, j)
            => /\ gen[i].filename = gen[j].filename
               /\ (Answered(i) /\ Answered(j))
                    => /\ gen[i].resp.status = 200
                       /\ gen[j].resp.status = 200
                       /\ gen[i].resp.downloadUrl = gen[j].resp.downloadUrl
                       /\ gen[i].filename \in DOMAIN fs
                            => (fs[gen[i].filename].owner # i
                                \/ fs[gen[i].filename].owner # j)

\* two requests read the clock at different instants of one second, both
\* conversions succeeded, both are answered 200, and the file is the second's
C8_Witness ==
    /\ Answered(1) /\ Answered(2)
    /\ gen[1].readAt = 0 /\ gen[2].readAt = 1
    /\ gen[1].success /\ gen[2].success
    /\ gen[1].resp.status = 200 /\ gen[2].resp.status = 200
    /\ gen[1].resp.filename = gen[2].resp.filename
    /\ gen[1].resp.filename \in DOMAIN fs
    /\ fs[gen[1].resp.filename].owner = 2

====
